---- MODULE Spec2Model ----
(***************************************************************************)
(* State-machine model of LlamaIndex-CustomLLM: the Settings holder        *)
(* (config.py), the RAGPipeline wrapper (rag_pipeline.py) and the          *)
(* Streamlit handlers (app.py).  The external framework (directory reader, *)
(* node parser, vector index, query engine) is modelled by what the        *)
(* wrapper observes of it: the value a step returns, or the exception it   *)
(* raises.                                                                 *)
(***************************************************************************)
EXTENDS Integers, Sequences, FiniteSets, TLC

VARIABLES
    environ,          \* os.environ of the process
    settings,         \* class attributes of config.Settings, evaluated at import
    bootEnv,          \* history: os.environ as the Settings class body saw it
    pipeline,         \* a RAGPipeline driven directly: [index, query_engine]
    store,            \* heap of VectorStoreIndex objects: id -> sequence of nodes
    call,             \* the most recent call on the pipeline and its inputs
    result,           \* how that call ended: [out, exc, value]
    errs,             \* logger.error records emitted by that call
    delegated,        \* framework steps that call invoked, in order
    created,          \* history: some create_index call has returned normally
    rag_pipeline,     \* st.session_state.rag_pipeline, per session
    documents_loaded, \* st.session_state.documents_loaded, per session
    uploaded_files,   \* the file_uploader's value, per session
    temp_docs,        \* the shared directory temp_docs: file name -> data
    pc,               \* position of each session's script thread
    ui                \* the last handler run, of any session, and what it showed

vars == <<environ, settings, bootEnv, pipeline, store, call, result, errs,
          delegated, created, rag_pipeline, documents_loaded, uploaded_files,
          temp_docs, pc, ui>>

settingsVars == <<environ, settings, bootEnv>>
pipelineVars == <<pipeline, call, result, errs, delegated, created>>
uiVars == <<rag_pipeline, documents_loaded, uploaded_files, temp_docs, pc, ui>>

\* Python's None, and a reference to the heap object with address i.
None == [none |-> TRUE]
Ref(i) == [id |-> i]
Absent == "Absent"
Unset == "Unset"

\* Bounds of the model.
MaxPathList == 2      \* longest document_paths list handed to load_documents
MaxNodes == 2         \* add_documents is not called on an index beyond this size

-----------------------------------------------------------------------------
(* config.py *)

EnvNames == {"GEMINI_API_KEY", "DEBUG"}
EnvValues == [GEMINI_API_KEY |-> {Unset, "key-1"}, DEBUG |-> {Unset, "True", "false"}]
Envs == {e \in [EnvNames -> {Unset, "key-1", "True", "false"}] :
            \A n \in EnvNames : e[n] \in EnvValues[n]}

getenv(e, name, default) == IF e[name] = Unset THEN default ELSE e[name]

lower(s) ==
    CASE s = "True" -> "true"
      [] s = "TRUE" -> "true"
      [] s = "False" -> "false"
      [] OTHER -> s

\* load_dotenv() with its default override=False: a variable already set in the
\* process environment wins over the .env file.
load_dotenv(e, dotfile) ==
    [n \in EnvNames |-> IF e[n] # Unset THEN e[n] ELSE dotfile[n]]

Settings(e) ==
    [GEMINI_API_KEY |-> getenv(e, "GEMINI_API_KEY", ""),
     MODEL_NAME |-> "gemini-pro",
     EMBEDDING_MODEL |-> "models/embedding-001",
     TEMPERATURE |-> "0.7",
     MAX_TOKENS |-> 500,
     TOP_P |-> "0.95",
     TOP_K |-> 40,
     APP_NAME |-> "LlamaIndex Custom LLM with Gemini",
     DEBUG |-> (lower(getenv(e, "DEBUG", "False")) = "true"),
     CHUNK_SIZE |-> 1024,
     CHUNK_OVERLAP |-> 20,
     RETRIEVAL_TOP_K |-> 3]

SettingNames == DOMAIN Settings([n \in EnvNames |-> Unset])

\* A property-style holder that would consult the environment on every access.
getattr_live(name) == Settings(environ)[name]

\* settings.<name>: a class attribute, looked up in the evaluated class body.
getattr_settings(name) == settings[name]

\* The process environment changes after startup (os.environ / putenv).
putenv ==
    /\ \E n \in EnvNames : \E v \in EnvValues[n] :
          /\ v # environ[n]
          /\ environ' = [environ EXCEPT ![n] = v]
    /\ UNCHANGED <<settings, bootEnv>>

-----------------------------------------------------------------------------
(* The file system seen by SimpleDirectoryReader *)

Names == {"a.txt", "b.txt"}
rank(name) == IF name = "a.txt" THEN 1 ELSE 2

\* Directories the directly driven pipeline is pointed at.
Paths == {"docsA", "docsB", "missing"}
FixedFS ==
    [p \in Paths |->
        CASE p = "docsA" -> [n \in Names |-> "A"]
          [] p = "docsB" -> [n \in Names |-> IF n = "a.txt" THEN "B" ELSE Absent]
          [] OTHER -> [n \in Names |-> Absent]]

tokens(name) == IF name = "a.txt" THEN 50 ELSE 1150

Document(path, name, data) ==
    [path |-> path, name |-> name, data |-> data, tokens |-> tokens(name)]

RECURSIVE sorted(_)
sorted(S) ==
    IF S = {} THEN <<>>
    ELSE LET m == CHOOSE x \in S : \A y \in S : rank(x) <= rank(y)
         IN <<m>> \o sorted(S \ {m})

present(dir) == {n \in Names : dir[n] # Absent}

\* SimpleDirectoryReader(input_dir=path) raises when the directory has no
\* files (or does not exist), and reading can fail for any other I/O reason.
reads(fs, unreadable, path) == path \notin unreadable /\ present(fs[path]) # {}

\* reader.load_data(): one document per file, in file-name order.
load_data(fs, path) ==
    LET names == sorted(present(fs[path]))
    IN [i \in 1..Len(names) |-> Document(path, names[i], fs[path][names[i]])]

-----------------------------------------------------------------------------
(* rag_pipeline.py *)

Excs == {"ConnectionError", "RuntimeError"}
NoFault == [step |-> "none", exc |-> "none"]
Faults(steps) == {NoFault} \cup [step : steps, exc : Excs]

Return(v) == [out |-> "return", exc |-> "none", value |-> v]
Raise(e) == [out |-> "raise", exc |-> e, value |-> None]

ErrorRecord(msg, detail) == [level |-> "ERROR", msg |-> msg, detail |-> detail]

\* RAGPipeline.__init__: the object as the constructor leaves it.
NewPipeline == [index |-> None, query_engine |-> None]

EmptyStore == [i \in {} |-> <<>>]

\* Object identity of a newly constructed index: an address not in use.
fresh(st) ==
    CHOOSE i \in 1..(Cardinality(DOMAIN st) + 1) :
        /\ i \notin DOMAIN st
        /\ \A j \in 1..(i - 1) : j \in DOMAIN st

\* Reference counting: an index no live object refers to is freed.
refs(p) ==
    IF p = None THEN {}
    ELSE (IF p.index = None THEN {} ELSE {p.index.id})
         \cup (IF p.query_engine = None THEN {} ELSE {p.query_engine.index.id})

collect(st, roots) == [i \in (DOMAIN st) \cap roots |-> st[i]]

\* A break on the first failing path instead of continuing.
RECURSIVE load_loop_break(_, _, _, _, _, _)
load_loop_break(document_paths, fs, unreadable, i, documents, log) ==
    IF i > Len(document_paths) THEN [documents |-> documents, errs |-> log]
    ELSE LET path == document_paths[i] IN
         IF reads(fs, unreadable, path)
         THEN load_loop_break(document_paths, fs, unreadable, i + 1,
                              documents \o load_data(fs, path), log)
         ELSE [documents |-> documents,
               errs |-> Append(log, ErrorRecord("Error loading documents from", path))]

\* The for loop of load_documents, from position i on.
RECURSIVE load_loop(_, _, _, _, _, _)
load_loop(document_paths, fs, unreadable, i, documents, log) ==
    IF i > Len(document_paths) THEN [documents |-> documents, errs |-> log]
    ELSE LET path == document_paths[i] IN
         IF reads(fs, unreadable, path)
         THEN load_loop(document_paths, fs, unreadable, i + 1,
                        documents \o load_data(fs, path), log)
         ELSE load_loop(document_paths, fs, unreadable, i + 1, documents,
                        Append(log, ErrorRecord("Error loading documents from", path)))

load_documents(document_paths, fs, unreadable) ==
    LET r == load_loop(document_paths, fs, unreadable, 1, <<>>, <<>>)
    IN [res |-> Return(r.documents), errs |-> r.errs]

\* The splitter, by the number of chunks it cuts a document of t tokens into:
\* windows of chunk_size tokens, each starting chunk_overlap before the end of
\* the previous one.
NumChunks(t, chunk_size, chunk_overlap) ==
    IF t <= chunk_size THEN 1
    ELSE 1 + ((t - chunk_size) + (chunk_size - chunk_overlap) - 1)
                 \div (chunk_size - chunk_overlap)

RECURSIVE get_nodes_from_documents(_, _, _)
get_nodes_from_documents(documents, chunk_size, chunk_overlap) ==
    IF documents = <<>> THEN <<>>
    ELSE LET d == Head(documents)
             n == NumChunks(d.tokens, chunk_size, chunk_overlap)
         IN [k \in 1..n |-> [doc |-> d, chunk |-> k]]
            \o get_nodes_from_documents(Tail(documents), chunk_size, chunk_overlap)

\* The steps of a try block that ran, given the step (if any) that raised.
RECURSIVE ran(_, _)
ran(steps, fault) ==
    IF steps = <<>> THEN <<>>
    ELSE IF Head(steps) = fault.step THEN <<Head(steps)>>
    ELSE <<Head(steps)>> \o ran(Tail(steps), fault)

Range(q) == {q[i] : i \in 1..Len(q)}

raisedIn(steps, fault) == \E i \in 1..Len(steps) : steps[i] = fault.step

CreateSteps == <<"from_defaults", "get_nodes_from_documents", "VectorStoreIndex",
                 "as_query_engine">>
QuerySteps == <<"query_engine.query">>
AddSteps == <<"from_defaults", "get_nodes_from_documents", "insert_nodes">>

\* create_index(documents) on pipeline self with heap st; fault is the
\* framework step that raises, if any.
create_index(self, st, documents, fault) ==
    LET nodes == get_nodes_from_documents(documents, getattr_settings("CHUNK_SIZE"),
                                          getattr_settings("CHUNK_OVERLAP"))
        id == fresh(st)
        st1 == (id :> nodes) @@ st
        engine == [index |-> Ref(id), similarity_top_k |-> getattr_settings("RETRIEVAL_TOP_K")]
        log == IF raisedIn(CreateSteps, fault)
               THEN <<ErrorRecord("Error creating index", fault.exc)>> ELSE <<>>
    IN  IF fault.step \in {"from_defaults", "get_nodes_from_documents", "VectorStoreIndex"}
        THEN [self |-> self, store |-> st, res |-> Raise(fault.exc), errs |-> log,
              delegated |-> ran(CreateSteps, fault)]
        ELSE IF fault.step = "as_query_engine"
        THEN [self |-> [self EXCEPT !.index = Ref(id)], store |-> st1,
              res |-> Raise(fault.exc), errs |-> log,
              delegated |-> ran(CreateSteps, fault)]
        ELSE [self |-> [index |-> Ref(id), query_engine |-> engine], store |-> st1,
              res |-> Return(Ref(id)), errs |-> log, delegated |-> CreateSteps]

\* What the query engine answers: the top-k nodes of the index it is bound to.
Response(engine, st, query_text) ==
    LET nodes == st[engine.index.id]
        k == IF Len(nodes) < engine.similarity_top_k THEN Len(nodes)
             ELSE engine.similarity_top_k
    IN [query |-> query_text, index |-> engine.index,
        source_nodes |-> SubSeq(nodes, 1, k)]

ValueError == "ValueError"

\* query without its guard: the engine is dereferenced whatever it is.
query_unguarded(self, st, query_text, fault) ==
    IF self.query_engine = None
    THEN [self |-> self, store |-> st, res |-> Raise("AttributeError"),
          errs |-> <<ErrorRecord("Error executing query with Gemini", "AttributeError")>>,
          delegated |-> QuerySteps]
    ELSE IF raisedIn(QuerySteps, fault)
    THEN [self |-> self, store |-> st, res |-> Raise(fault.exc),
          errs |-> <<ErrorRecord("Error executing query with Gemini", fault.exc)>>,
          delegated |-> ran(QuerySteps, fault)]
    ELSE [self |-> self, store |-> st,
          res |-> Return(Response(self.query_engine, st, query_text)),
          errs |-> <<>>, delegated |-> QuerySteps]

\* query whose except branch logs and falls through, returning None.
query_swallow(self, st, query_text, fault) ==
    IF self.query_engine = None
    THEN [self |-> self, store |-> st, res |-> Raise(ValueError), errs |-> <<>>,
          delegated |-> <<>>]
    ELSE IF raisedIn(QuerySteps, fault)
    THEN [self |-> self, store |-> st, res |-> Return(None),
          errs |-> <<ErrorRecord("Error executing query with Gemini", fault.exc)>>,
          delegated |-> ran(QuerySteps, fault)]
    ELSE [self |-> self, store |-> st,
          res |-> Return(Response(self.query_engine, st, query_text)),
          errs |-> <<>>, delegated |-> QuerySteps]

\* query(query_text)
query(self, st, query_text, fault) ==
    IF self.query_engine = None
    THEN [self |-> self, store |-> st, res |-> Raise(ValueError), errs |-> <<>>,
          delegated |-> <<>>]
    ELSE IF raisedIn(QuerySteps, fault)
    THEN [self |-> self, store |-> st, res |-> Raise(fault.exc),
          errs |-> <<ErrorRecord("Error executing query with Gemini", fault.exc)>>,
          delegated |-> ran(QuerySteps, fault)]
    ELSE [self |-> self, store |-> st,
          res |-> Return(Response(self.query_engine, st, query_text)),
          errs |-> <<>>, delegated |-> QuerySteps]

\* add_documents checking for the index only when it is about to insert.
add_documents_late_check(self, st, documents, fault) ==
    LET nodes == get_nodes_from_documents(documents, getattr_settings("CHUNK_SIZE"),
                                          getattr_settings("CHUNK_OVERLAP"))
        parse == <<"from_defaults", "get_nodes_from_documents">>
    IN  IF raisedIn(parse, fault)
        THEN [self |-> self, store |-> st, res |-> Raise(fault.exc),
              errs |-> <<ErrorRecord("Error adding documents", fault.exc)>>,
              delegated |-> ran(parse, fault)]
        ELSE IF self.index = None
        THEN [self |-> self, store |-> st, res |-> Raise(ValueError), errs |-> <<>>,
              delegated |-> parse]
        ELSE IF raisedIn(AddSteps, fault)
        THEN [self |-> self, store |-> st, res |-> Raise(fault.exc),
              errs |-> <<ErrorRecord("Error adding documents", fault.exc)>>,
              delegated |-> ran(AddSteps, fault)]
        ELSE [self |-> self, store |-> [st EXCEPT ![self.index.id] = @ \o nodes],
              res |-> Return(None), errs |-> <<>>, delegated |-> AddSteps]

\* add_documents building a new index over the old and the new nodes.
add_documents_rebuild(self, st, documents, fault) ==
    LET nodes == get_nodes_from_documents(documents, getattr_settings("CHUNK_SIZE"),
                                          getattr_settings("CHUNK_OVERLAP"))
        id == fresh(st)
    IN  IF self.index = None
        THEN [self |-> self, store |-> st, res |-> Raise(ValueError), errs |-> <<>>,
              delegated |-> <<>>]
        ELSE IF raisedIn(AddSteps, fault)
        THEN [self |-> self, store |-> st, res |-> Raise(fault.exc),
              errs |-> <<ErrorRecord("Error adding documents", fault.exc)>>,
              delegated |-> ran(AddSteps, fault)]
        ELSE [self |-> [self EXCEPT !.index = Ref(id)],
              store |-> (id :> (st[self.index.id] \o nodes)) @@ st,
              res |-> Return(None), errs |-> <<>>, delegated |-> AddSteps]

\* add_documents(documents)
add_documents(self, st, documents, fault) ==
    LET nodes == get_nodes_from_documents(documents, getattr_settings("CHUNK_SIZE"),
                                          getattr_settings("CHUNK_OVERLAP"))
    IN  IF self.index = None
        THEN [self |-> self, store |-> st, res |-> Raise(ValueError), errs |-> <<>>,
              delegated |-> <<>>]
        ELSE IF raisedIn(AddSteps, fault)
        THEN [self |-> self, store |-> st, res |-> Raise(fault.exc),
              errs |-> <<ErrorRecord("Error adding documents", fault.exc)>>,
              delegated |-> ran(AddSteps, fault)]
        ELSE [self |-> self, store |-> [st EXCEPT ![self.index.id] = @ \o nodes],
              res |-> Return(None), errs |-> <<>>, delegated |-> AddSteps]

-----------------------------------------------------------------------------
(* A RAGPipeline driven directly by a caller *)

RECURSIVE SeqsUpTo(_, _)
SeqsUpTo(S, n) ==
    IF n = 0 THEN {<<>>}
    ELSE LET shorter == SeqsUpTo(S, n - 1)
         IN shorter \cup {Append(q, x) : q \in shorter, x \in S}

PathLists == SeqsUpTo(Paths, MaxPathList)
DocLists == {load_data(FixedFS, p) : p \in Paths}
QueryTexts == {"what?", "  "}

Call(op, arg, unreadable, fault) ==
    [op |-> op, arg |-> arg, unreadable |-> unreadable, fault |-> fault]

\* Import of config.py: load_dotenv(), then the Settings class body.
InitSettings(envs) ==
    /\ \E e \in envs, dotfile \in envs : environ = load_dotenv(e, dotfile)
    /\ settings = Settings(environ)
    /\ bootEnv = environ

NoEnv == [n \in EnvNames |-> Unset]

InitPipeline ==
    /\ pipeline = NewPipeline
    /\ store = EmptyStore
    /\ call = Call("__init__", None, {}, NoFault)
    /\ result = Return(None)
    /\ errs = <<>>
    /\ delegated = <<>>
    /\ created = FALSE

Sessions == {"s1", "s2"}

\* What a script run did: the button it handled, the banner it showed, whether
\* an exception left the handler, and how the handler's last call ended.
Shown(s, button, banner, escaped, res) ==
    [session |-> s, button |-> button, banner |-> banner, escaped |-> escaped,
     out |-> res.out, exc |-> res.exc]

InitUI ==
    /\ rag_pipeline = [s \in Sessions |-> None]
    /\ documents_loaded = [s \in Sessions |-> FALSE]
    /\ uploaded_files = [s \in Sessions |-> <<>>]
    /\ temp_docs = [n \in Names |-> Absent]
    /\ pc = [s \in Sessions |-> "idle"]
    /\ ui = Shown("none", "none", "none", FALSE, Return(None))

Init == InitSettings({NoEnv}) /\ InitPipeline /\ InitUI

\* Every index some pipeline object still refers to.
live(p, pipes) == refs(p) \cup UNION {refs(pipes[s]) : s \in Sessions}

LoadDocumentsFrom(lists, failures) ==
    \E paths \in lists, unreadable \in failures :
        LET r == load_documents(paths, FixedFS, unreadable) IN
        /\ call' = Call("load_documents", paths, unreadable, NoFault)
        /\ result' = r.res
        /\ errs' = r.errs
        /\ delegated' = <<>>
        /\ UNCHANGED <<pipeline, store, created>>

Finish(op, arg, fault, r) ==
    /\ call' = Call(op, arg, {}, fault)
    /\ pipeline' = r.self
    /\ store' = collect(r.store, live(r.self, rag_pipeline))
    /\ result' = r.res
    /\ errs' = r.errs
    /\ delegated' = r.delegated

CreateIndex(lists, faults) ==
    \E documents \in lists, fault \in faults :
        LET r == create_index(pipeline, store, documents, fault) IN
        /\ Finish("create_index", documents, fault, r)
        /\ created' = (created \/ r.res.out = "return")

Query(texts, faults) ==
    \E query_text \in texts, fault \in faults :
        LET r == query(pipeline, store, query_text, fault) IN
        /\ Finish("query", query_text, fault, r)
        /\ UNCHANGED created

AddDocuments(lists, faults) ==
    \E documents \in lists, fault \in faults :
        LET r == add_documents(pipeline, store, documents, fault) IN
        /\ pipeline.index # None => Len(store[pipeline.index.id]) <= MaxNodes
        /\ Finish("add_documents", documents, fault, r)
        /\ UNCHANGED created

\* load_documents neither reads nor writes the pipeline object: every input is
\* explored on its own, and two of them between the other calls.
LoadDocuments == LoadDocumentsFrom(PathLists, SUBSET Paths)
LoadSome == LoadDocumentsFrom({<<"docsA", "missing", "docsB">>}, {{}, {"docsA"}})

\* A call on the directly driven pipeline leaves the settings and the sessions alone.
OnPipeline(A) == A /\ UNCHANGED settingsVars /\ UNCHANGED uiVars

NextLoad == OnPipeline(LoadDocuments)

SpecLoad == Init /\ [][NextLoad]_vars

NextPipeline ==
    \/ OnPipeline(LoadSome)
    \/ OnPipeline(CreateIndex(DocLists, Faults(Range(CreateSteps))))
    \/ OnPipeline(Query(QueryTexts, Faults(Range(QuerySteps))))
    \/ OnPipeline(AddDocuments(DocLists, Faults(Range(AddSteps))))

SpecPipeline == Init /\ [][NextPipeline]_vars

-----------------------------------------------------------------------------
(* app.py *)

UIExcs == {"ConnectionError"}
UIFaults(steps) == {NoFault} \cup [step : steps, exc : UIExcs]

InitSteps == <<"Gemini", "GeminiEmbedding">>

\* Initialize Pipeline without line 56: the flag survives the new pipeline.
initialize_keep_flag(old, loaded, fault) ==
    IF raisedIn(InitSteps, fault)
    THEN [rag_pipeline |-> old, documents_loaded |-> loaded, banner |-> "none",
          escaped |-> TRUE, res |-> Raise(fault.exc)]
    ELSE [rag_pipeline |-> NewPipeline, documents_loaded |-> loaded,
          banner |-> "success", escaped |-> FALSE, res |-> Return(None)]

\* Lines 53-56: the Initialize Pipeline button.
initialize(old, loaded, fault) ==
    IF raisedIn(InitSteps, fault)
    THEN [rag_pipeline |-> old, documents_loaded |-> loaded, banner |-> "none",
          escaped |-> TRUE, res |-> Raise(fault.exc)]
    ELSE [rag_pipeline |-> NewPipeline, documents_loaded |-> FALSE,
          banner |-> "success", escaped |-> FALSE, res |-> Return(None)]

\* A loop that leaves a file alone when the directory already has that name.
RECURSIVE write_files_keep_existing(_, _, _, _)
write_files_keep_existing(dir, files, i, failAt) ==
    IF i > Len(files) THEN [dir |-> dir, res |-> Return(None)]
    ELSE IF i = failAt THEN [dir |-> dir, res |-> Raise("OSError")]
    ELSE IF dir[files[i].name] # Absent
    THEN write_files_keep_existing(dir, files, i + 1, failAt)
    ELSE write_files_keep_existing([dir EXCEPT ![files[i].name] = files[i].data],
                                   files, i + 1, failAt)

\* Lines 66-69: the loop writing each upload to temp_docs/<name>; the write of
\* the file at position failAt raises.
RECURSIVE write_files(_, _, _, _)
write_files(dir, files, i, failAt) ==
    IF i > Len(files) THEN [dir |-> dir, res |-> Return(None)]
    ELSE IF i = failAt THEN [dir |-> dir, res |-> Raise("OSError")]
    ELSE write_files([dir EXCEPT ![files[i].name] = files[i].data], files, i + 1, failAt)

\* Lines 63-69; failAt = 0 is a failing mkdir.
save_uploads(dir, files, failAt) ==
    IF failAt = 0 THEN [dir |-> dir, res |-> Raise("OSError")]
    ELSE write_files(dir, files, 1, failAt)

\* The flag of line 76 set ahead of create_index.
process_documents_flag_first(p, st, dir, loaded, unreadable, fault) ==
    LET l == load_documents(<<"temp_docs">>, [q \in {"temp_docs"} |-> dir], unreadable)
        r == create_index(p, st, l.res.value, fault)
    IN  [rag_pipeline |-> r.self, store |-> r.store, documents_loaded |-> TRUE,
         banner |-> IF r.res.out = "return" THEN "success" ELSE "error",
         escaped |-> FALSE, res |-> r.res]

\* Lines 71-80: load, index, flag, and the except branch.
process_documents(p, st, dir, loaded, unreadable, fault) ==
    LET l == load_documents(<<"temp_docs">>, [q \in {"temp_docs"} |-> dir], unreadable)
        r == create_index(p, st, l.res.value, fault)
    IN  IF r.res.out = "return"
        THEN [rag_pipeline |-> r.self, store |-> r.store, documents_loaded |-> TRUE,
              banner |-> "success", escaped |-> FALSE, res |-> r.res]
        ELSE [rag_pipeline |-> r.self, store |-> r.store, documents_loaded |-> loaded,
              banner |-> "error", escaped |-> FALSE, res |-> r.res]

strip(text) == IF text = "  " THEN "" ELSE text

\* Lines 93-112: the Search button.
search(p, st, text, fault) ==
    IF strip(text) = ""
    THEN [banner |-> "warning", escaped |-> FALSE, res |-> Return(None)]
    ELSE IF p = None
    THEN [banner |-> "error", escaped |-> FALSE, res |-> Raise("AttributeError")]
    ELSE LET r == query(p, st, text, fault)
         IN  [banner |-> IF r.res.out = "return" THEN "response" ELSE "error",
              escaped |-> FALSE, res |-> r.res]

File(name, s) == [name |-> name, data |-> s]
UploadLists(s) ==
    {<<>>, <<File("a.txt", s)>>, <<File("b.txt", s)>>, <<File("a.txt", s), File("b.txt", s)>>}

\* The user changes the file_uploader's selection; the script reruns, no button.
Upload(s, lists) ==
    /\ pc[s] = "idle"
    /\ \E files \in lists :
          /\ files # uploaded_files[s]
          /\ uploaded_files' = [uploaded_files EXCEPT ![s] = files]
    /\ ui' = Shown(s, "none", "none", FALSE, Return(None))
    /\ UNCHANGED <<rag_pipeline, documents_loaded, temp_docs, pc, store>>

Initialize(s, faults) ==
    /\ pc[s] = "idle"
    /\ \E fault \in faults :
          LET h == initialize(rag_pipeline[s], documents_loaded[s], fault) IN
          /\ rag_pipeline' = [rag_pipeline EXCEPT ![s] = h.rag_pipeline]
          /\ documents_loaded' = [documents_loaded EXCEPT ![s] = h.documents_loaded]
          /\ store' = collect(store, live(pipeline, rag_pipeline'))
          /\ ui' = Shown(s, "Initialize", h.banner, h.escaped, h.res)
    /\ UNCHANGED <<uploaded_files, temp_docs, pc>>

\* Process Documents, first half: the uploads are written to the directory.
\* The script thread of another session can run before the second half.
ProcessSave(s, failPoints) ==
    /\ pc[s] = "idle"
    /\ uploaded_files[s] # <<>>
    /\ rag_pipeline[s] # None
    /\ \E failAt \in failPoints \cup {Len(uploaded_files[s]) + 1} :
          LET w == save_uploads(temp_docs, uploaded_files[s], failAt) IN
          /\ temp_docs' = w.dir
          /\ IF w.res.out = "return"
             THEN /\ pc' = [pc EXCEPT ![s] = "load"]
                  /\ ui' = Shown(s, "Process", "spinner", FALSE, w.res)
             ELSE /\ pc' = pc
                  /\ ui' = Shown(s, "Process", "error", FALSE, w.res)
    /\ UNCHANGED <<rag_pipeline, documents_loaded, uploaded_files, store>>

\* Process Documents, second half: the directory is loaded and indexed.
ProcessLoad(s, failures, faults) ==
    /\ pc[s] = "load"
    /\ \E unreadable \in failures, fault \in faults :
          LET h == process_documents(rag_pipeline[s], store, temp_docs,
                                     documents_loaded[s], unreadable, fault) IN
          /\ rag_pipeline' = [rag_pipeline EXCEPT ![s] = h.rag_pipeline]
          /\ documents_loaded' = [documents_loaded EXCEPT ![s] = h.documents_loaded]
          /\ store' = collect(h.store, live(pipeline, rag_pipeline'))
          /\ ui' = Shown(s, "Process", h.banner, h.escaped, h.res)
    /\ pc' = [pc EXCEPT ![s] = "idle"]
    /\ UNCHANGED <<uploaded_files, temp_docs>>

Search(s, faults) ==
    /\ pc[s] = "idle"
    /\ documents_loaded[s]
    /\ \E text \in QueryTexts, fault \in faults :
          LET h == search(rag_pipeline[s], store, text, fault) IN
          ui' = Shown(s, "Search", h.banner, h.escaped, h.res)
    /\ UNCHANGED <<rag_pipeline, documents_loaded, uploaded_files, temp_docs, pc, store>>

\* All that a session can observe of the other sessions is what their Process
\* Documents handlers write into the shared directory.
OtherSessionSaves ==
    /\ \E files \in UploadLists("s2") \ {<<>>} :
          \E failAt \in 0..(Len(files) + 1) :
              temp_docs' = save_uploads(temp_docs, files, failAt).dir
    /\ temp_docs' # temp_docs
    /\ UNCHANGED <<rag_pipeline, documents_loaded, uploaded_files, pc, ui, store>>

\* A script run leaves the settings and the directly driven pipeline alone.
InUI(A) == A /\ UNCHANGED settingsVars /\ UNCHANGED pipelineVars

\* One session with every failure of every handler, the other sessions seen
\* through the directory.
NextUI ==
    \/ InUI(Upload("s1", UploadLists("s1")))
    \/ InUI(Initialize("s1", UIFaults(Range(InitSteps))))
    \/ InUI(ProcessSave("s1", 0..Len(uploaded_files["s1"])))
    \/ InUI(ProcessLoad("s1", {{}, {"temp_docs"}}, UIFaults(Range(CreateSteps))))
    \/ InUI(Search("s1", UIFaults(Range(QuerySteps))))
    \/ InUI(OtherSessionSaves)

SpecUI == Init /\ [][NextUI]_vars

\* Two sessions whose script threads interleave, every framework call succeeding.
NextShared ==
    \/ \E s \in Sessions : InUI(Upload(s, UploadLists(s)))
    \/ \E s \in Sessions : InUI(Initialize(s, {NoFault}))
    \/ \E s \in Sessions : InUI(ProcessSave(s, {}))
    \/ \E s \in Sessions : InUI(ProcessLoad(s, {{}}, {NoFault}))

SpecShared == Init /\ [][NextShared]_vars

\* The environment changing under a running application: the script runs of one
\* session, and the pipeline calls they make, between changes of os.environ.
SomeFaults == {NoFault, [step |-> "as_query_engine", exc |-> "ConnectionError"]}

InitAnyEnv == InitSettings(Envs) /\ InitPipeline /\ InitUI

NextSettings ==
    \/ putenv /\ UNCHANGED pipelineVars /\ UNCHANGED uiVars /\ UNCHANGED store
    \/ InUI(Upload("s1", {<<File("a.txt", "s1")>>}))
    \/ InUI(Initialize("s1", UIFaults(Range(InitSteps))))
    \/ InUI(ProcessSave("s1", {}))
    \/ InUI(ProcessLoad("s1", {{}}, SomeFaults))
    \/ InUI(Search("s1", {NoFault}))

SpecSettings == InitAnyEnv /\ [][NextSettings]_vars

-----------------------------------------------------------------------------
(* Properties *)

Nodes(documents) ==
    get_nodes_from_documents(documents, getattr_settings("CHUNK_SIZE"),
                             getattr_settings("CHUNK_OVERLAP"))

\* C1: while no create_index call has returned normally, every query call
\* raises ValueError without invoking the query engine or any other framework
\* step, and leaves index, query_engine and the indexes themselves as they were.
C1_QueryBeforeIndex ==
    [][(~created /\ call'.op = "query") =>
          /\ result'.out = "raise"
          /\ result'.exc = ValueError
          /\ delegated' = <<>>
          /\ pipeline' = pipeline
          /\ store' = store]_vars

\* A query on a pipeline whose only create_index call failed after the index
\* had been assigned.
C1_Witness ==
    /\ ~created
    /\ call.op = "query"
    /\ pipeline.index # None
    /\ result.exc = ValueError

\* C2: on a pipeline whose index is None, every add_documents call raises
\* ValueError before any splitting or insertion step has run, and leaves index,
\* query_engine and the heap as they were.
C2_AddBeforeIndex ==
    [][(pipeline.index = None /\ call'.op = "add_documents") =>
          /\ result'.out = "raise"
          /\ result'.exc = ValueError
          /\ delegated' = <<>>
          /\ pipeline' = pipeline
          /\ store' = store]_vars

C2_Witness ==
    /\ call.op = "add_documents"
    /\ Len(call.arg) > 0
    /\ pipeline.index = None
    /\ result.exc = ValueError

RECURSIVE Concat(_)
Concat(qs) == IF qs = <<>> THEN <<>> ELSE Head(qs) \o Concat(Tail(qs))

Readable(paths, unreadable) ==
    LET ok(path) == reads(FixedFS, unreadable, path) IN SelectSeq(paths, ok)
Failing(paths, unreadable) ==
    LET bad(path) == ~reads(FixedFS, unreadable, path) IN SelectSeq(paths, bad)

\* C3: load_documents returns normally; its value is the concatenation, in path
\* order, of the documents of exactly the paths that read; and it has logged one
\* error per failing path, in path order.
C3_LoadPartialFailure ==
    call.op = "load_documents" =>
        LET good == Readable(call.arg, call.unreadable)
            bad == Failing(call.arg, call.unreadable)
        IN  /\ result.out = "return"
            /\ result.value = Concat([i \in 1..Len(good) |-> load_data(FixedFS, good[i])])
            /\ errs = [i \in 1..Len(bad) |->
                          ErrorRecord("Error loading documents from", bad[i])]

\* A failing path ahead of a path that reads.
C3_Witness ==
    /\ call.op = "load_documents"
    /\ Len(call.arg) = 2
    /\ ~reads(FixedFS, call.unreadable, call.arg[1])
    /\ reads(FixedFS, call.unreadable, call.arg[2])
    /\ Len(result.value) > 0
    /\ Len(errs) = 1

\* The framework step named by the call's fault was reached by the call.
FaultStruck ==
    /\ call.fault # NoFault
    /\ \/ call.op = "create_index"
       \/ call.op = "query" /\ pipeline.query_engine # None
       \/ call.op = "add_documents" /\ pipeline.index # None

LogMessage(op) ==
    CASE op = "create_index" -> "Error creating index"
      [] op = "query" -> "Error executing query with Gemini"
      [] op = "add_documents" -> "Error adding documents"

\* C4: when a framework step raises inside create_index, query (engine present)
\* or add_documents (index present), the call logs one error carrying that
\* exception and ends by raising that same exception.
C4_FailurePropagates ==
    FaultStruck =>
        /\ result.out = "raise"
        /\ result.exc = call.fault.exc
        /\ errs = <<ErrorRecord(LogMessage(call.op), call.fault.exc)>>

C4_Witness ==
    /\ call.op = "query"
    /\ pipeline.query_engine # None
    /\ call.fault.exc = "RuntimeError"
    /\ result.out = "raise"

\* C5: every value read through settings is the one the Settings class body
\* computed from the environment at import, whatever has run and however the
\* environment has changed since.
C5_SettingsImmutable ==
    \A name \in SettingNames : getattr_settings(name) = Settings(bootEnv)[name]

\* The environment now yields other settings than at import, and a session has
\* built an index.
C5_Witness ==
    /\ Settings(environ) # Settings(bootEnv)
    /\ documents_loaded["s1"]

\* C6: an add_documents call that returns leaves self.index the same object
\* and self.query_engine unchanged, creates no index, and the index holds the
\* nodes it held followed by the nodes of the new documents.
C6_AddInPlace ==
    [][(call'.op = "add_documents" /\ result'.out = "return") =>
          /\ pipeline.index # None
          /\ pipeline' = pipeline
          /\ DOMAIN store' = DOMAIN store
          /\ store'[pipeline.index.id] = store[pipeline.index.id] \o Nodes(call'.arg)
          /\ \A i \in DOMAIN store : i # pipeline.index.id => store'[i] = store[i]]_vars

\* New nodes added to an index that already held some.
C6_Witness ==
    /\ call.op = "add_documents"
    /\ result.out = "return"
    /\ Len(call.arg) > 0
    /\ Len(store[pipeline.index.id]) > Len(Nodes(call.arg))

\* A failed Process Documents leaves documents_loaded as it was, and
\* documents_loaded turns True only in the step in which load_documents and
\* create_index have both returned.
C7_Step ==
    /\ (ui'.button = "Process" /\ ui'.out = "raise") =>
          documents_loaded' = documents_loaded
    /\ \A s \in Sessions :
          (documents_loaded'[s] /\ ~documents_loaded[s]) =>
              /\ pc[s] = "load"
              /\ ui' = Shown(s, "Process", "success", FALSE, Return(None))
              /\ rag_pipeline'[s].query_engine # None

\* No exception leaves the Process Documents or Search handler, and a failure
\* in either is shown as the error banner.
C7_Caught ==
    ui.button \in {"Process", "Search"} =>
        /\ ~ui.escaped
        /\ ui.out = "raise" => ui.banner = "error"

\* C7: failures of Process Documents and Search are caught and shown as the
\* error banner, and documents_loaded turns True only once load_documents and
\* create_index have both returned.
C7_UIBoundary == [](C7_Caught) /\ [][C7_Step]_vars

\* create_index failed in Process Documents after it had assigned the index.
C7_Witness ==
    /\ ui.button = "Process"
    /\ ui.out = "raise"
    /\ ui.banner = "error"
    /\ rag_pipeline["s1"].index # None
    /\ ~documents_loaded["s1"]

DirNodes(dir) == Nodes(load_data([q \in {"temp_docs"} |-> dir], "temp_docs"))

\* Nothing is ever removed from temp_docs; a session saving its uploads
\* makes each of its file names hold its own data, whoever wrote that name
\* before, and touches no other name; and the index a session builds holds
\* the nodes of every file then in the directory.
C8_Step ==
    /\ \A n \in Names : temp_docs[n] # Absent => temp_docs'[n] # Absent
    /\ \A s \in Sessions :
          (pc[s] = "idle" /\ pc'[s] = "load") =>
              \A n \in Names :
                 temp_docs'[n] =
                    IF \E i \in 1..Len(uploaded_files[s]) : uploaded_files[s][i].name = n
                    THEN s ELSE temp_docs[n]
    /\ \A s \in Sessions :
          (pc[s] = "load" /\ pc'[s] = "idle") =>
              /\ documents_loaded'[s]
              /\ store'[rag_pipeline'[s].index.id] = DirNodes(temp_docs)

\* C8: all sessions write into one directory keyed by file name alone, with no
\* collision handling and no cleanup, and a session indexes all of it.
C8_SharedDirectory == [][C8_Step]_vars

\* A session uploaded a.txt, and the index it built holds the a.txt of the
\* other session and a file it never uploaded.
C8_Witness ==
    /\ pc["s1"] = "idle"
    /\ documents_loaded["s1"]
    /\ uploaded_files["s1"] = <<File("a.txt", "s1")>>
    /\ LET nodes == store[rag_pipeline["s1"].index.id]
       IN  /\ \E i \in 1..Len(nodes) :
                 nodes[i].doc.name = "a.txt" /\ nodes[i].doc.data = "s2"
           /\ \E i \in 1..Len(nodes) : nodes[i].doc.name = "b.txt"

\* C9: whenever query_engine is set, index is set and query_engine is the
\* engine built from that index.
C9_EngineOfCurrentIndex ==
    pipeline.query_engine # None =>
        /\ pipeline.index # None
        /\ pipeline.query_engine.index = pipeline.index

Loaded(s) ==
    documents_loaded[s] =>
        /\ rag_pipeline[s] # None
        /\ rag_pipeline[s].query_engine # None

====
